---- MODULE Spec2Model ----
(***************************************************************************)
(* treex.Optimizer (src/treex/optimizer.py): an object that wraps an optax *)
(* GradientTransformation and carries the optimizer state as a field.      *)
(*                                                                         *)
(* A tree (params, grads, updates, optimizer state) is a record            *)
(*   [ann |-> the annotation its TreeObject fields carry,                  *)
(*    leaves |-> the sequence of its leaf values]                          *)
(* Two trees have the same structure when they have the same annotation    *)
(* and the same number of leaves.  Python's None is the tree None.         *)
(* Adapters live in a heap: adapters[i] is the object with identity i.     *)
(***************************************************************************)
EXTENDS Integers, Sequences, FiniteSets, TLC

\* ------------------------------------------------------------- bounds
MaxAdapters == 3
MaxSteps == 2

\* ------------------------------------------------------------- trees
None == [ann |-> "None", leaves |-> <<>>]

\* optax's state of a transformation that keeps nothing: an empty tuple
EmptyState == [ann |-> "EmptyState", leaves |-> <<>>]

\* gradient trees and parameter trees of one leaf and of two; the leaf values
\* of a gradient differ from those of a parameter
GradTrees ==
    {[ann |-> "Parameter", leaves |-> <<1>>], [ann |-> "OptState", leaves |-> <<1>>],
     [ann |-> "Parameter", leaves |-> <<1, 2>>]}

ParamTrees ==
    {[ann |-> "Parameter", leaves |-> <<10>>], [ann |-> "OptState", leaves |-> <<10>>],
     [ann |-> "Parameter", leaves |-> <<10, 20>>]}

\* the wrapped transformations an adapter is constructed over
Optimizers == {"sgd", "momentum", "decay"}

SameStructure(s, t) == s.ann = t.ann /\ Len(s.leaves) = Len(t.leaves)

\* jax.tree_map(f, t): same structure, f on every leaf
Neg(t) == [ann |-> t.ann, leaves |-> [i \in 1..Len(t.leaves) |-> 0 - t.leaves[i]]]

Zeros(t) == [ann |-> t.ann, leaves |-> [i \in 1..Len(t.leaves) |-> 0]]

\* jax.tree_map(+, s, t): the structure of s, leafwise sum
Add(s, t) == [ann |-> s.ann, leaves |-> [i \in 1..Len(s.leaves) |-> s.leaves[i] + t.leaves[i]]]

\* annotation_map(lambda _: types.OptState, tree): every annotation becomes
\* OptState, the leaves are kept; None has nothing to annotate
annotation_map(tree) ==
    IF tree = None THEN None ELSE [ann |-> "OptState", leaves |-> tree.leaves]

\* module_update(module, updates): the structure of module with the leaves of
\* updates; raises when the leaves do not line up
module_update(module, updates) ==
    IF Len(module.leaves) # Len(updates.leaves)
    THEN [raised |-> TRUE, value |-> None]
    ELSE [raised |-> FALSE,
          value |-> [ann |-> module.ann, leaves |-> updates.leaves]]

\* ------------------------------------------------ wrapped transformation
\* optimizer.init(params) -> state
OptaxInit(optimizer, params) ==
    IF optimizer = "momentum" THEN Zeros(params) ELSE EmptyState

\* optimizer.update(updates, state, params) -> (updates, state), or raises
OptaxUpdate(optimizer, updates, state, params) ==
    CASE optimizer = "sgd" ->
           [raised |-> FALSE, updates |-> Neg(updates), state |-> state]
      [] optimizer = "momentum" ->
           IF ~SameStructure(updates, state)
           THEN [raised |-> TRUE, updates |-> None, state |-> state]
           ELSE [raised |-> FALSE,
                 updates |-> Neg(Add(updates, state)),
                 state |-> Add(updates, state)]
      [] optimizer = "decay" ->
           IF ~SameStructure(updates, params)
           THEN [raised |-> TRUE, updates |-> None, state |-> state]
           ELSE [raised |-> FALSE,
                 updates |-> Neg(Add(updates, params)),
                 state |-> state]

\* optax.apply_updates(params, updates): leafwise params + updates, or raises
OptaxApplyUpdates(params, updates) ==
    IF ~SameStructure(params, updates)
    THEN [raised |-> TRUE, value |-> None]
    ELSE [raised |-> FALSE, value |-> Add(params, updates)]

\* ------------------------------------------------------------- state
VARIABLES adapters, last, hist

vars == <<adapters, last, hist>>

\* Optimizer.__init__
NewOptimizer(optimizer) ==
    [optimizer |-> optimizer, opt_state |-> None, initialized |-> FALSE]

\* TreeObject.copy(): a new object with the same field values
copy(heap, self) == heap[self]

\* --- variants of init that each carry one fault; the properties below are
\* --- checked to tell them from init
\* init that fills the receiver in instead of a copy
init_in_place(heap, self, params) ==
    [heap |-> [heap EXCEPT ![self] =
                 [optimizer |-> heap[self].optimizer,
                  opt_state |-> OptaxInit(heap[self].optimizer, annotation_map(params)),
                  initialized |-> TRUE]],
     new |-> self]

\* init that hands params to optimizer.init without annotation_map
init_unmapped(heap, self, params) ==
    LET module == copy(heap, self) IN
    [heap |-> Append(heap,
                 [optimizer |-> module.optimizer,
                  opt_state |-> OptaxInit(module.optimizer, params),
                  initialized |-> TRUE]),
     new |-> Len(heap) + 1]

\* init that leaves _initialized as the copy has it
init_no_flag(heap, self, params) ==
    LET module == copy(heap, self) IN
    [heap |-> Append(heap,
                 [optimizer |-> module.optimizer,
                  opt_state |-> OptaxInit(module.optimizer, annotation_map(params)),
                  initialized |-> module.initialized]),
     new |-> Len(heap) + 1]

\* Optimizer.init: the heap after the call and the identity of the adapter it
\* returns
init(heap, self, params) ==
    LET module == copy(heap, self) IN
    [heap |-> Append(heap,
                 [optimizer |-> module.optimizer,
                  opt_state |-> OptaxInit(module.optimizer, annotation_map(params)),
                  initialized |-> TRUE]),
     new |-> Len(heap) + 1]

ParamsRequired == "ValueError: params must be provided if updates are being applied"

\* the two checks in the other order
precondition_value_first(heap, self, params, return_updates) ==
    IF ~return_updates /\ params = None THEN ParamsRequired
    ELSE IF heap[self].opt_state = None THEN "AssertionError"
    ELSE ""

\* the check of params left out
precondition_no_params_check(heap, self, params, return_updates) ==
    IF heap[self].opt_state = None THEN "AssertionError" ELSE ""

\* the assert and the check of params that open apply_updates: what they
\* raise, "" when they pass
precondition(heap, self, params, return_updates) ==
    IF heap[self].opt_state = None THEN "AssertionError"
    ELSE IF ~return_updates /\ params = None THEN ParamsRequired
    ELSE ""

\* the new state is dropped
store_nothing(heap, self, state) == heap

\* the new state lands on every initialized adapter, not on self alone
store_on_all(heap, self, state) ==
    [i \in DOMAIN heap |->
        IF heap[i].opt_state = None THEN heap[i] ELSE [heap[i] EXCEPT !.opt_state = state]]

\* self.opt_state = <the state optimizer.update returned>
store(heap, self, state) == [heap EXCEPT ![self].opt_state = state]

\* the two branches exchanged
output_swapped(return_updates, opt_params, param_updates) ==
    IF ~return_updates
    THEN [raised |-> FALSE, value |-> param_updates]
    ELSE OptaxApplyUpdates(opt_params, param_updates)

\* output: the updates themselves, or the params with the updates applied
output(return_updates, opt_params, param_updates) ==
    IF return_updates
    THEN [raised |-> FALSE, value |-> param_updates]
    ELSE OptaxApplyUpdates(opt_params, param_updates)

\* a call that raises name from a heap
Failure(heap, name, called) ==
    [heap |-> heap, raised |-> name, update_called |-> called, value |-> None]

\* apply_updates that keeps the new state only when it applies the updates
apply_updates_store_if_applied(heap, self, grads, params, return_updates) ==
    LET failed == precondition(heap, self, params, return_updates) IN
    IF failed # "" THEN Failure(heap, failed, FALSE)
    ELSE
      LET opt_grads == annotation_map(grads)
          opt_params == annotation_map(params)
          u == OptaxUpdate(heap[self].optimizer, opt_grads, heap[self].opt_state, opt_params)
      IN IF u.raised THEN Failure(heap, "optimizer.update raised", TRUE)
         ELSE
           LET heap1 == IF return_updates THEN heap ELSE store(heap, self, u.state)
               out == output(return_updates, opt_params, u.updates)
           IN IF out.raised THEN Failure(heap1, "optax.apply_updates raised", TRUE)
              ELSE
                LET r == module_update(grads, out.value)
                IN IF r.raised THEN Failure(heap1, "module_update raised", TRUE)
                   ELSE [heap |-> heap1, raised |-> "", update_called |-> TRUE,
                         value |-> r.value]

\* apply_updates that checks params only after optimizer.update has run
apply_updates_check_late(heap, self, grads, params, return_updates) ==
    IF heap[self].opt_state = None THEN Failure(heap, "AssertionError", FALSE)
    ELSE
      LET opt_grads == annotation_map(grads)
          opt_params == annotation_map(params)
          u == OptaxUpdate(heap[self].optimizer, opt_grads, heap[self].opt_state, opt_params)
      IN IF u.raised THEN Failure(heap, "optimizer.update raised", TRUE)
         ELSE
           LET heap1 == store(heap, self, u.state) IN
           IF ~return_updates /\ params = None THEN Failure(heap1, ParamsRequired, TRUE)
           ELSE
             LET out == output(return_updates, opt_params, u.updates)
             IN IF out.raised THEN Failure(heap1, "optax.apply_updates raised", TRUE)
                ELSE
                  LET r == module_update(grads, out.value)
                  IN IF r.raised THEN Failure(heap1, "module_update raised", TRUE)
                     ELSE [heap |-> heap1, raised |-> "", update_called |-> TRUE,
                           value |-> r.value]

\* Optimizer.apply_updates: the heap after the call, what it raised ("" when it
\* returned), whether optimizer.update was called, and the value returned.
\* An exception leaves the heap as the statements before it made it.
apply_updates(heap, self, grads, params, return_updates) ==
    LET failed == precondition(heap, self, params, return_updates) IN
    IF failed # "" THEN Failure(heap, failed, FALSE)
    ELSE
      LET opt_grads == annotation_map(grads)
          opt_params == annotation_map(params)
          u == OptaxUpdate(heap[self].optimizer, opt_grads, heap[self].opt_state, opt_params)
      IN IF u.raised THEN Failure(heap, "optimizer.update raised", TRUE)
         ELSE
           LET heap1 == store(heap, self, u.state)
               out == output(return_updates, opt_params, u.updates)
           IN IF out.raised THEN Failure(heap1, "optax.apply_updates raised", TRUE)
              ELSE
                LET r == module_update(grads, out.value)
                IN IF r.raised THEN Failure(heap1, "module_update raised", TRUE)
                   ELSE [heap |-> heap1, raised |-> "", update_called |-> TRUE,
                         value |-> r.value]

\* ------------------------------------------------------------- actions
\* hist[i] follows adapter i from the init that made it: the state init gave
\* it (s0), the number of apply_updates calls that returned and the number in
\* which optimizer.update returned, and the wrapped update folded from s0 over
\* the (grads, params) of the one kind of call and of the other
Fold(optimizer, state, grads, params) ==
    OptaxUpdate(optimizer, annotation_map(grads), state, annotation_map(params)).state

NoHist == [s0 |-> None, returned |-> 0, updated |-> 0,
           folded_returned |-> None, folded_updated |-> None]

NewHist(s0) == [s0 |-> s0, returned |-> 0, updated |-> 0,
                folded_returned |-> s0, folded_updated |-> s0]

RECURSIVE Updated(_, _)
\* the number of calls, over adapters 1..n, in which optimizer.update returned
Updated(h, n) == IF n = 0 THEN 0 ELSE h[n].updated + Updated(h, n - 1)

Init ==
    \E optimizer \in Optimizers :
        /\ adapters = <<NewOptimizer(optimizer)>>
        /\ last = [op |-> "construct", self |-> 1, grads |-> None, params |-> None,
                   return_updates |-> FALSE, raised |-> "", update_called |-> FALSE,
                   value |-> None, new |-> 1, pre |-> NewOptimizer(optimizer)]
        /\ hist = <<NoHist>>

CallInit(self, params) ==
    /\ Len(adapters) < MaxAdapters
    /\ LET r == init(adapters, self, params) IN
       /\ adapters' = r.heap
       /\ last' = [op |-> "init", self |-> self, grads |-> None, params |-> params,
                   return_updates |-> FALSE, raised |-> "", update_called |-> FALSE,
                   value |-> None, new |-> r.new, pre |-> adapters[self]]
       /\ hist' = IF Len(r.heap) > Len(adapters)
                  THEN Append(hist, NewHist(r.heap[r.new].opt_state))
                  ELSE [hist EXCEPT ![self] = NewHist(r.heap[r.new].opt_state)]

CallApplyUpdates(self, grads, params, return_updates) ==
    LET r == apply_updates(adapters, self, grads, params, return_updates)
        updated == r.update_called /\ r.raised # "optimizer.update raised"
        h == hist[self]
    IN
    /\ (updated \/ r.heap # adapters) => Updated(hist, Len(hist)) < MaxSteps
    /\ adapters' = r.heap
    /\ last' = [op |-> "apply_updates", self |-> self, grads |-> grads, params |-> params,
                return_updates |-> return_updates, raised |-> r.raised,
                update_called |-> r.update_called, value |-> r.value, new |-> 0,
                pre |-> adapters[self]]
    /\ hist' = [hist EXCEPT ![self] =
                 [s0 |-> h.s0,
                  returned |-> IF r.raised = "" THEN h.returned + 1 ELSE h.returned,
                  updated |-> IF updated THEN h.updated + 1 ELSE h.updated,
                  folded_returned |->
                      IF r.raised = ""
                      THEN Fold(adapters[self].optimizer, h.folded_returned, grads, params)
                      ELSE h.folded_returned,
                  folded_updated |->
                      IF updated
                      THEN Fold(adapters[self].optimizer, h.folded_updated, grads, params)
                      ELSE h.folded_updated]]

Next ==
    \/ \E self \in DOMAIN adapters, params \in ParamTrees : CallInit(self, params)
    \/ \E self \in DOMAIN adapters, grads \in GradTrees, params \in ParamTrees \cup {None},
          return_updates \in BOOLEAN :
          CallApplyUpdates(self, grads, params, return_updates)

Spec == Init /\ [][Next]_vars

\* ------------------------------------------------------------- properties
\* last describes the most recent call: last.pre is the receiver as it was
\* before the call, adapters[last.self] the receiver as the call left it.
Applied == last.op = "apply_updates"

Returned == Applied /\ last.raised = ""

\* optimizer.update as the adapter calls it, from the state before the call
Mapped ==
    OptaxUpdate(last.pre.optimizer, annotation_map(last.grads), last.pre.opt_state,
                annotation_map(last.params))

\* optimizer.update called on the caller's own grads and params
Direct == OptaxUpdate(last.pre.optimizer, last.grads, last.pre.opt_state, last.params)

\* C1 as stated: A.init(P) returns an adapter that is initialized, wraps A's
\* transformation, and whose state equals optimizer.init(P).
C1_StateIsInitOfParams ==
    last.op = "init" =>
        /\ adapters[last.new].initialized
        /\ adapters[last.new].optimizer = last.pre.optimizer
        /\ adapters[last.new].opt_state = OptaxInit(last.pre.optimizer, last.params)

\* C1 amended: A.init(P) returns an adapter that is initialized, wraps A's
\* transformation, and whose state equals optimizer.init of P with its
\* annotations turned into OptState: the leaves of optimizer.init(P), and all of
\* it when P is annotated OptState already.
C1_StateIsInitOfMappedParams ==
    last.op = "init" =>
        /\ adapters[last.new].initialized
        /\ adapters[last.new].optimizer = last.pre.optimizer
        /\ adapters[last.new].opt_state
             = OptaxInit(last.pre.optimizer, annotation_map(last.params))
        /\ adapters[last.new].opt_state.leaves
             = OptaxInit(last.pre.optimizer, last.params).leaves
        /\ last.params.ann = "OptState" =>
             adapters[last.new].opt_state = OptaxInit(last.pre.optimizer, last.params)

C1_Witness ==
    /\ last.op = "init"
    /\ last.pre.initialized
    /\ last.pre.optimizer = "momentum"
    /\ last.params.ann = "Parameter"
    /\ Len(last.params.leaves) = 2
    /\ adapters[last.new].opt_state = [ann |-> "OptState", leaves |-> <<0, 0>>]

\* C2: init leaves its receiver as it was (state, initialized flag, wrapped
\* transformation) and returns another adapter.
C2_InitLeavesReceiver ==
    last.op = "init" =>
        /\ adapters[last.self] = last.pre
        /\ last.new # last.self

C2_Witness ==
    /\ last.op = "init"
    /\ ~adapters[last.self].initialized
    /\ adapters[last.self].opt_state = None
    /\ adapters[last.new].initialized
    /\ adapters[last.new].opt_state # None

\* C3: apply_updates on an adapter that is not initialized raises the
\* AssertionError, whatever grads, params and return_updates are, and does not
\* reach optimizer.update.
C3_UninitializedAsserts ==
    (Applied /\ ~last.pre.initialized) =>
        /\ last.raised = "AssertionError"
        /\ ~last.update_called

C3_Witness ==
    /\ Applied
    /\ ~last.pre.initialized
    /\ last.params = None
    /\ ~last.return_updates
    /\ last.raised = "AssertionError"

\* C4 as stated: apply_updates(grads, params=None, return_updates=False) raises
\* the ValueError on params for every grads and does not call optimizer.update;
\* with return_updates=True on an initialized adapter it does not raise it.
C4_NoParamsIsValueError ==
    /\ (Applied /\ last.params = None /\ ~last.return_updates) =>
          (last.raised = ParamsRequired /\ ~last.update_called)
    /\ (Applied /\ last.params = None /\ last.return_updates /\ last.pre.initialized) =>
          last.raised # ParamsRequired

\* C4 amended: on an adapter whose state is present,
\* apply_updates(grads, params=None, return_updates=False) raises the ValueError
\* on params (on one whose state is absent, the AssertionError); either way
\* optimizer.update is not called. With return_updates=True on an initialized
\* adapter the call goes on to optimizer.update and does not raise that error.
C4_NoParamsIsValueErrorOnceInitialized ==
    /\ (Applied /\ last.params = None /\ ~last.return_updates) =>
          /\ last.raised = (IF last.pre.opt_state = None
                            THEN "AssertionError" ELSE ParamsRequired)
          /\ ~last.update_called
    /\ (Applied /\ last.params = None /\ last.return_updates /\ last.pre.initialized) =>
          (last.raised # ParamsRequired /\ last.update_called)

C4_Witness ==
    /\ Applied
    /\ last.pre.initialized
    /\ last.params = None
    /\ ~last.return_updates
    /\ last.raised = ParamsRequired
    /\ ~last.update_called
    /\ hist[last.self].updated > 0

\* C5: on an initialized adapter in state S0, with (deltas, S1) =
\* optimizer.update(g, S0, p): apply_updates(g, p, return_updates=True) returns
\* deltas, and apply_updates(g, p, return_updates=False) returns
\* optax.apply_updates(p, deltas), the leafwise p + deltas. (Where g and p are
\* annotated otherwise than the state, so that the update on them is not
\* defined, the adapter still returns the deltas of their OptState copies on the
\* structure of g.)
C5_ReturnsDeltasOrAppliedParams ==
    (Applied /\ last.pre.opt_state # None) =>
        /\ (last.return_updates /\ ~Direct.raised) =>
              (last.raised = "" /\ last.value = Direct.updates)
        /\ (/\ ~last.return_updates
            /\ ~Direct.raised
            /\ ~OptaxApplyUpdates(last.params, Direct.updates).raised) =>
              /\ last.raised = ""
              /\ last.value = OptaxApplyUpdates(last.params, Direct.updates).value
              /\ last.value.leaves
                   = [i \in 1..Len(last.params.leaves) |->
                        last.params.leaves[i] + Direct.updates.leaves[i]]
        /\ Returned =>
              /\ last.value.ann = last.grads.ann
              /\ last.value.leaves =
                   IF last.return_updates THEN Mapped.updates.leaves
                   ELSE [i \in 1..Len(last.params.leaves) |->
                           last.params.leaves[i] + Mapped.updates.leaves[i]]

C5_Witness ==
    /\ Returned
    /\ ~last.return_updates
    /\ last.pre.optimizer = "momentum"
    /\ last.pre.opt_state.leaves = <<1>>
    /\ ~Direct.raised
    /\ last.grads.leaves = <<1>>
    /\ last.params.leaves = <<10>>
    /\ last.value = [ann |-> "OptState", leaves |-> <<8>>]

\* C6: the state a successful apply_updates leaves is the state
\* optimizer.update returns from the state before, one step on, and it is the
\* state the same call with the other value of return_updates leaves on an
\* adapter with the same transformation and the same state.
C6_StateStepIgnoresReturnUpdates ==
    Returned =>
        /\ adapters[last.self].opt_state = Mapped.state
        /\ ~Direct.raised => adapters[last.self].opt_state = Direct.state
        /\ hist[last.self].updated > 0
        /\ LET twin == apply_updates(<<last.pre>>, 1, last.grads, last.params,
                                     ~last.return_updates)
           IN twin.raised = "" => twin.heap[1] = adapters[last.self]

C6_Witness ==
    /\ Returned
    /\ last.return_updates
    /\ last.pre.optimizer = "momentum"
    /\ adapters[last.self].opt_state # last.pre.opt_state
    /\ apply_updates(<<last.pre>>, 1, last.grads, last.params, FALSE).raised = ""
    /\ apply_updates(<<last.pre>>, 1, last.grads, last.params, FALSE).heap[1]
         = adapters[last.self]

\* C7: on every adapter the state is absent exactly when the initialized flag
\* is false, which is exactly when no init produced the adapter.
C7_StateAbsentIffUninitialized ==
    \A i \in DOMAIN adapters :
        /\ (adapters[i].opt_state = None) <=> ~adapters[i].initialized
        /\ (adapters[i].opt_state = None) <=> (hist[i].s0 = None)

C7_Witness ==
    /\ ~adapters[1].initialized
    /\ adapters[1].opt_state = None
    /\ \E i \in DOMAIN adapters :
          adapters[i].initialized /\ adapters[i].opt_state # None /\ hist[i].updated > 0
    /\ Applied
    /\ last.raised # ""

\* C8: the state of an adapter advances from call to call: it is the wrapped
\* update applied, from the state init gave it, once for every call in which
\* optimizer.update returned, so after n successful calls (and none that raised
\* after the update, in optax.apply_updates or module_update) it is the n-fold
\* application. Each call is computed from the state the call before left: its
\* result differs from the result of the same call on the state init gave
\* whenever the wrapped deltas of the two states differ.
C8_StateIsFoldOfUpdates ==
    /\ \A i \in DOMAIN adapters :
          hist[i].s0 # None =>
              /\ adapters[i].opt_state = hist[i].folded_updated
              /\ hist[i].returned = hist[i].updated =>
                   adapters[i].opt_state = hist[i].folded_returned
    /\ Returned =>
          LET fresh == [optimizer |-> last.pre.optimizer,
                        opt_state |-> hist[last.self].s0, initialized |-> TRUE]
              first == apply_updates(<<fresh>>, 1, last.grads, last.params,
                                     last.return_updates)
              d0 == OptaxUpdate(last.pre.optimizer, annotation_map(last.grads),
                                hist[last.self].s0, annotation_map(last.params))
          IN /\ Fold(last.pre.optimizer, last.pre.opt_state, last.grads, last.params)
                  = hist[last.self].folded_updated
             /\ (~d0.raised /\ d0.updates # Mapped.updates) => last.value # first.value

C8_Witness ==
    /\ Returned
    /\ last.return_updates
    /\ last.pre.optimizer = "momentum"
    /\ hist[last.self].returned = 2
    /\ hist[last.self].updated = 2
    /\ last.grads.leaves = <<1>>
    /\ last.pre.opt_state.leaves = <<1>>
    /\ adapters[last.self].opt_state.leaves = <<2>>
    /\ last.value.leaves = <<0 - 2>>

\* C9: apply_updates changes nothing but the state field of the adapter it is
\* called on: that adapter keeps its transformation and its initialized flag,
\* and every other adapter, the one init was called on and the others init
\* returned, stays as it was.
C9_ApplyUpdatesTouchesOwnStateOnly ==
    [][last'.op = "apply_updates" =>
          /\ DOMAIN adapters' = DOMAIN adapters
          /\ \A i \in DOMAIN adapters :
                /\ adapters'[i].optimizer = adapters[i].optimizer
                /\ adapters'[i].initialized = adapters[i].initialized
                /\ i # last'.self => adapters'[i] = adapters[i]]_vars

C9_Witness ==
    /\ Returned
    /\ adapters[last.self].opt_state # last.pre.opt_state
    /\ ~adapters[1].initialized
    /\ \E j \in DOMAIN adapters :
          /\ j # last.self
          /\ adapters[j].initialized
          /\ hist[j].s0 = hist[last.self].s0
          /\ hist[j].updated = 0
          /\ adapters[j].opt_state = hist[j].s0

\* C10: an apply_updates call that raises the AssertionError, the ValueError on
\* params, or because optimizer.update raised leaves the adapter as it was.
C10_EarlyFailureLeavesAdapter ==
    (Applied /\ last.raised \in {"AssertionError", ParamsRequired, "optimizer.update raised"})
        => /\ adapters[last.self] = last.pre
           /\ hist[last.self].s0 # None =>
                adapters[last.self].opt_state = hist[last.self].folded_updated

C10_Witness ==
    /\ Applied
    /\ last.raised = "optimizer.update raised"
    /\ last.update_called
    /\ hist[last.self].updated > 0
    /\ adapters[last.self] = last.pre
    /\ adapters[last.self].opt_state # hist[last.self].s0

====
